---- MODULE Spec2Model ----
(***************************************************************************)
(* A model of the controller client of terraform-provider-aviatrix:        *)
(*   goaviatrix/tags.go          AddTags, GetTags, DeleteTags, UpdateTags  *)
(*   resource device registration  Create, Read, Update, Delete            *)
(* The remote controller and the transport (PostAPI, GetAPI, BasicCheck,   *)
(* RegisterDevice, GetDevice, UpdateDevice, DeregisterDevice,              *)
(* UpgradeGateway) are not part of the two source files; they are modelled *)
(* from the specification's description of their contract.                 *)
(***************************************************************************)
EXTENDS Naturals, Sequences, FiniteSets

VARIABLES
    ctrlTags,   \* controller: resource key -> user tags of the resource
    tags,       \* the caller-held goaviatrix.Tags struct
    tagRet,     \* what the last tag call returned
    ctrlDev,    \* controller: device name -> device record, or NoDevice
    d,          \* the schema.ResourceData of the device registration
    devRet,     \* what the last resource handler returned
    reqs        \* the client requests the last resource handler issued

tagVars == <<ctrlTags, tags, tagRet>>
devVars == <<ctrlDev, d, devRet, reqs>>
vars == <<ctrlTags, tags, tagRet, ctrlDev, d, devRet, reqs>>

(***************************************************************************)
(* Bounds of the model: the resources the caller tags, and the software    *)
(* versions a gateway may run.                                             *)
(***************************************************************************)
NumResources == 1
NumVersions == 2

\* The tag keys and values callers use.
Keys == {"k1", "k2"}
Vals == {"v1", "v2"}

\* A tag mapping: map[string]string with unique keys; nil is the empty map.
TagMaps == UNION {[S -> Vals] : S \in SUBSET Keys}
NoTags == <<>>

(***************************************************************************)
(* strconv.Itoa, as the decimal digits of n, most significant first.       *)
(***************************************************************************)
Digits == <<"0", "1", "2", "3", "4", "5", "6", "7", "8", "9">>

RECURSIVE Itoa(_)
Itoa(n) == IF n < 10 THEN Digits[n + 1]
           ELSE Itoa(n \div 10) \o Digits[(n % 10) + 1]

(***************************************************************************)
(* The resources the caller names: (cloud_type, resource_type,             *)
(* resource_name).  On the wire cloud_type is its base-10 string.          *)
(***************************************************************************)
CloudTypes == <<1, 16, 4, 8>>
Gateway(i) == [CloudType |-> CloudTypes[i], ResourceType |-> "gw", ResourceName |-> "gw1"]
Resources == {Gateway(i) : i \in 1..NumResources}

WireKey(ct, rt, rn) == <<Itoa(ct), rt, rn>>
ResourceKeys == {WireKey(r.CloudType, r.ResourceType, r.ResourceName) : r \in Resources}

\* Client.CID, the session token of the client.
ClientCID == "cid"

(***************************************************************************)
(* Transport and controller (contract only).  A request is delivered and   *)
(* accepted ("ok"), answered with return = false ("reject"), or lost       *)
(* ("transport").                                                          *)
(***************************************************************************)
Outcomes == {"ok", "reject", "transport"}

\* BasicCheck: the {return, reason} envelope as an error kind.
BasicCheck(outcome) == IF outcome = "ok" THEN "nil" ELSE "APIError"

\* PostAPI / GetAPI: the error the call returns.
PostAPI(outcome) == IF outcome = "transport" THEN "TransportError" ELSE BasicCheck(outcome)
GetAPI(outcome) == IF outcome = "transport" THEN "TransportError" ELSE BasicCheck(outcome)

\* Controller, add_resource_tags / update_resource_tags: the JSON payload
\* becomes the resource's user tags.
CtrlSetTags(ct, key, payload) == [ct EXCEPT ![key] = payload]

\* Controller, delete_resource_tag: the named keys are removed.
CtrlDeleteTags(ct, key, delKeys) ==
    [ct EXCEPT ![key] = [k \in (DOMAIN ct[key]) \ delKeys |-> ct[key][k]]]

\* Controller, list_resource_tags: the results of an accepted request.  A
\* resource without user tags has no "usr_tags" category; other categories
\* may be present.
SysTags == [k \in {"sys"} |-> "v1"]
CtrlListTags(ct, key, other) ==
    LET usr == IF ct[key] = NoTags THEN <<>>
               ELSE [c \in {"usr_tags"} |-> ct[key]]
        sys == IF other THEN [c \in {"sys_tags"} |-> SysTags] ELSE <<>>
    IN [c \in (DOMAIN usr) \cup (DOMAIN sys) |->
           IF c = "usr_tags" THEN ct[key] ELSE SysTags]

(***************************************************************************)
(* Tags struct                                                             *)
(***************************************************************************)
\* TagList is the set of keys its comma-joined string names; TagJson is the
\* mapping its JSON text encodes (callers encode both, the controller decodes).
NewTags(r, tl, tj) ==
    [Action |-> "", CID |-> "", CloudType |-> r.CloudType,
     ResourceType |-> r.ResourceType, ResourceName |-> r.ResourceName,
     TagList |-> tl, Tags |-> NoTags, TagJson |-> tj]

\* What a call returned: the operation, how the controller answered, the
\* error kind, the returned list, and (GetTags) the categories of the response
\* the controller gave.
Returned(op, outcome, err, list, cats) ==
    [op |-> op, outcome |-> outcome, err |-> err, list |-> list, cats |-> cats]
NoCall == Returned("none", "ok", "nil", <<>>, {})

\* The orders in which a range over a Go map may visit the keys S.
Orderings(S) == {o \in [1..Cardinality(S) -> S] : \A i, j \in DOMAIN o : o[i] = o[j] => i = j}

TagStr(key, val) == key \o ":" \o val

\* The payloads a caller prepares: a tag mapping to add or update (as its JSON
\* form), or a list of keys to delete.
CallerInputs == {[TagList |-> {}, TagJson |-> m] : m \in TagMaps}
                  \cup {[TagList |-> s, TagJson |-> NoTags] : s \in SUBSET Keys}

\* The caller constructs a fresh struct for a call.
CallerNew ==
    /\ \E r \in Resources, p \in CallerInputs :
         tags' = NewTags(r, p.TagList, p.TagJson)
    /\ tagRet' = NoCall
    /\ UNCHANGED <<ctrlTags, devVars>>

\* The caller reuses its struct for another call, assigning the input fields.
CallerSet ==
    /\ \E r \in Resources, p \in CallerInputs :
         tags' = [tags EXCEPT !.CloudType = r.CloudType,
                              !.ResourceType = r.ResourceType,
                              !.ResourceName = r.ResourceName,
                              !.TagList = p.TagList, !.TagJson = p.TagJson]
    /\ tagRet' = NoCall
    /\ UNCHANGED <<ctrlTags, devVars>>

AddTags ==
    \E outcome \in Outcomes :
      LET stamped == [tags EXCEPT !.CID = ClientCID, !.Action = "add_resource_tags"]
          err == PostAPI(outcome)
          key == WireKey(stamped.CloudType, stamped.ResourceType, stamped.ResourceName)
      IN /\ tags' = stamped
         /\ ctrlTags' = IF err = "nil" THEN CtrlSetTags(ctrlTags, key, stamped.TagJson)
                        ELSE ctrlTags
         /\ tagRet' = Returned("AddTags", outcome, err, <<>>, {})
         /\ UNCHANGED devVars

\* The keys of map m in the order a range over it visits them, given the
\* order in which the run visits all keys.
RangeKeys(m, order) == SelectSeq(order \o <<"sys">>, LAMBDA k : k \in DOMAIN m)

\* A slip: the list is built from whichever category the response holds.
GetTagsResult_AnyCategory(t, results, order) ==
    IF DOMAIN results # {}
    THEN LET c == IF "usr_tags" \in DOMAIN results THEN "usr_tags"
                  ELSE CHOOSE x \in DOMAIN results : TRUE
             ks == RangeKeys(results[c], order)
         IN [tags |-> [t EXCEPT !.Tags = results[c]],
             list |-> [i \in DOMAIN ks |-> TagStr(ks[i], results[c][ks[i]])]]
    ELSE [tags |-> t, list |-> <<>>]

\* GetTags after the request succeeded: the struct and the returned list.
GetTagsResult(t, results, order) ==
    IF "usr_tags" \in DOMAIN results
    THEN LET tagsMap == results["usr_tags"]
             ks == RangeKeys(tagsMap, order)
         IN [tags |-> [t EXCEPT !.Tags = tagsMap],
             list |-> [i \in DOMAIN ks |-> TagStr(ks[i], tagsMap[ks[i]])]]
    ELSE [tags |-> t, list |-> <<>>]

GetTags ==
    \E outcome \in Outcomes, other \in BOOLEAN :
      LET key == WireKey(tags.CloudType, tags.ResourceType, tags.ResourceName)
          err == GetAPI(outcome)
          results == CtrlListTags(ctrlTags, key, other)
      IN /\ IF err # "nil"
            THEN /\ tags' = tags
                 /\ tagRet' = Returned("GetTags", outcome, err, <<>>, {})
            ELSE \E order \in Orderings(Keys) :
                 \E res \in {GetTagsResult(tags, results, order)} :
                      /\ tags' = res.tags
                      /\ tagRet' = Returned("GetTags", outcome, "nil", res.list, DOMAIN results)
         /\ UNCHANGED <<ctrlTags, devVars>>

DeleteTags ==
    \E outcome \in Outcomes :
      LET key == WireKey(tags.CloudType, tags.ResourceType, tags.ResourceName)
          err == PostAPI(outcome)
      IN /\ ctrlTags' = IF err = "nil" THEN CtrlDeleteTags(ctrlTags, key, tags.TagList)
                        ELSE ctrlTags
         /\ tagRet' = Returned("DeleteTags", outcome, err, <<>>, {})
         /\ UNCHANGED <<tags, devVars>>

UpdateTags ==
    \E outcome \in Outcomes :
      LET stamped == [tags EXCEPT !.CID = ClientCID, !.Action = "update_resource_tags"]
          err == PostAPI(outcome)
          key == WireKey(stamped.CloudType, stamped.ResourceType, stamped.ResourceName)
      IN /\ tags' = stamped
         /\ ctrlTags' = IF err = "nil" THEN CtrlSetTags(ctrlTags, key, stamped.TagJson)
                        ELSE ctrlTags
         /\ tagRet' = Returned("UpdateTags", outcome, err, <<>>, {})
         /\ UNCHANGED devVars

(***************************************************************************)
(* Device registration                                                     *)
(***************************************************************************)
VersionNames == <<"6.5", "6.6", "6.7", "6.8">>
Versions == {VersionNames[i] : i \in 1..NumVersions}

DevNames == {"dev1", "dev2"}
HostOSes == {"ios", "aviatrix"}

\* strconv.Atoi on a decimal string.
DigitVal(c) == CHOOSE v \in 0..9 : Digits[v + 1] = c
RECURSIVE Atoi(_)
Atoi(s) == IF Len(s) = 0 THEN 0
           ELSE 10 * Atoi(SubSeq(s, 1, Len(s) - 1)) + DigitVal(SubSeq(s, Len(s), Len(s)))

\* The mutable attributes a configuration may give a device.
Profiles ==
    {[username |-> "admin", key_file |-> "", password |-> "x", ssh_port |-> 22,
      address_1 |-> "", address_2 |-> "", city |-> "", state |-> "",
      country |-> "", zip_code |-> "", description |-> ""],
     [username |-> "ops", key_file |-> "id_rsa", password |-> "", ssh_port |-> 2022,
      address_1 |-> "1 Main St", address_2 |-> "Suite 2", city |-> "Reno",
      state |-> "NV", country |-> "US", zip_code |-> "89501",
      description |-> "edge"]}
MutableAttrs == {"username", "key_file", "password", "ssh_port", "address_1",
                 "address_2", "city", "state", "country", "zip_code", "description"}

\* The attributes of the resource schema.
SchemaAttrs == MutableAttrs \cup {"name", "public_ip", "host_os", "software_version", "is_caag"}

PublicIPOf(name) == IF name = "dev1" THEN "1.2.3.4" ELSE "5.6.7.8"

\* A ResourceData with no ID: every attribute at its zero value.
ZeroAttrs == [a \in SchemaAttrs |->
                 IF a = "ssh_port" THEN 0 ELSE IF a = "is_caag" THEN FALSE ELSE ""]
EmptyData == [id |-> "", attrs |-> ZeroAttrs]

\* The attributes a configuration plans for a new resource.
PlanCreate(name, os, prof, sv) ==
    [a \in SchemaAttrs |->
        CASE a \in MutableAttrs -> prof[a]
          [] a = "name" -> name
          [] a = "public_ip" -> PublicIPOf(name)
          [] a = "host_os" -> os
          [] a = "software_version" -> sv
          [] OTHER -> FALSE]

\* The attributes a configuration plans for an existing resource: the
\* ForceNew attributes and is_caag stay; software_version is Optional and
\* Computed, so a configuration that leaves it out plans the prior value.
PlanUpdate(prior, prof, sv) ==
    [a \in SchemaAttrs |->
        CASE a \in MutableAttrs -> prof[a]
          [] a = "software_version" -> IF sv = "" THEN prior[a] ELSE sv
          [] OTHER -> prior[a]]

marshalDeviceRegistrationInput(attrs) ==
    [Name |-> attrs.name, PublicIP |-> attrs.public_ip, Username |-> attrs.username,
     KeyFile |-> attrs.key_file, Password |-> attrs.password, HostOS |-> attrs.host_os,
     SshPort |-> attrs.ssh_port, SshPortStr |-> Itoa(attrs.ssh_port),
     Address1 |-> attrs.address_1, Address2 |-> attrs.address_2, City |-> attrs.city,
     State |-> attrs.state, Country |-> attrs.country, ZipCode |-> attrs.zip_code,
     Description |-> attrs.description]

(***************************************************************************)
(* The device client and the controller's device store (contract only).    *)
(* A controller record keeps what the wire carried: ssh_port as a string.  *)
(***************************************************************************)
NoDevice == [registered |-> FALSE]
Registered(ctrl, name) == name \in DOMAIN ctrl /\ ctrl[name].registered

ClientErr(outcome) == IF outcome = "transport" THEN "TransportError" ELSE "APIError"

\* One request of a handler, as issued and as answered.
Request(call, name, version, outcome, err) ==
    [call |-> call, name |-> name, version |-> version, outcome |-> outcome, err |-> err]

RegisterDevice(ctrl, device, ver, outcome) ==
    IF outcome # "ok" THEN [err |-> ClientErr(outcome), ctrl |-> ctrl]
    ELSE IF device.Name \notin DOMAIN ctrl \/ Registered(ctrl, device.Name)
    THEN [err |-> "APIError", ctrl |-> ctrl]
    ELSE [err |-> "nil",
          ctrl |-> [ctrl EXCEPT ![device.Name] =
             [registered |-> TRUE, public_ip |-> device.PublicIP,
              username |-> device.Username, key_file |-> device.KeyFile,
              password |-> device.Password, host_os |-> device.HostOS,
              ssh_port |-> device.SshPortStr, address_1 |-> device.Address1,
              address_2 |-> device.Address2, city |-> device.City,
              state |-> device.State, country |-> device.Country,
              zip_code |-> device.ZipCode, description |-> device.Description,
              software_version |-> ver,
              is_caag |-> (device.HostOS = "aviatrix")]]]

NilDevice == [Name |-> ""]

GetDevice(ctrl, device, outcome) ==
    IF outcome # "ok" THEN [err |-> ClientErr(outcome), device |-> NilDevice]
    ELSE IF ~Registered(ctrl, device.Name)
    THEN [err |-> "ErrNotFound", device |-> NilDevice]
    ELSE LET r == ctrl[device.Name]
         IN [err |-> "nil",
             device |-> [Name |-> device.Name, PublicIP |-> r.public_ip,
                         Username |-> r.username, HostOS |-> r.host_os,
                         SshPort |-> Atoi(r.ssh_port), Address1 |-> r.address_1,
                         Address2 |-> r.address_2, City |-> r.city, State |-> r.state,
                         Country |-> r.country, ZipCode |-> r.zip_code,
                         Description |-> r.description,
                         SoftwareVersion |-> r.software_version,
                         IsCaag |-> r.is_caag]]

UpdateDevice(ctrl, device, outcome) ==
    IF outcome # "ok" THEN [err |-> ClientErr(outcome), ctrl |-> ctrl]
    ELSE IF ~Registered(ctrl, device.Name) THEN [err |-> "APIError", ctrl |-> ctrl]
    ELSE [err |-> "nil",
          ctrl |-> [ctrl EXCEPT ![device.Name] =
             [@ EXCEPT !.username = device.Username, !.key_file = device.KeyFile,
                       !.password = device.Password, !.ssh_port = device.SshPortStr,
                       !.address_1 = device.Address1, !.address_2 = device.Address2,
                       !.city = device.City, !.state = device.State,
                       !.country = device.Country, !.zip_code = device.ZipCode,
                       !.description = device.Description]]]

DeregisterDevice(ctrl, device, outcome) ==
    IF outcome # "ok" THEN [err |-> ClientErr(outcome), ctrl |-> ctrl]
    ELSE IF ~Registered(ctrl, device.Name) THEN [err |-> "APIError", ctrl |-> ctrl]
    ELSE [err |-> "nil", ctrl |-> [ctrl EXCEPT ![device.Name] = NoDevice]]

UpgradeGateway(ctrl, gateway, outcome) ==
    IF outcome # "ok" THEN [err |-> ClientErr(outcome), ctrl |-> ctrl]
    ELSE IF ~Registered(ctrl, gateway.GwName) THEN [err |-> "APIError", ctrl |-> ctrl]
    ELSE IF ~ctrl[gateway.GwName].is_caag THEN [err |-> "APIError", ctrl |-> ctrl]
    ELSE [err |-> "nil",
          ctrl |-> [ctrl EXCEPT ![gateway.GwName].software_version =
                                    gateway.SoftwareVersion]]

(***************************************************************************)
(* The resource handlers.  Each takes the ResourceData and the controller  *)
(* and gives [err, data, ctrl, reqs]: the returned error ("nil" or         *)
(* "error"), the ResourceData and controller it leaves, and the requests   *)
(* it issued, in order.                                                    *)
(***************************************************************************)
Handled(err, data, ctrl, rs) == [err |-> err, data |-> data, ctrl |-> ctrl, reqs |-> rs]

SetId(data, id) == [data EXCEPT !.id = id]

resourceAviatrixDeviceRegistrationCreate(data, ctrl, ver, o1) ==
    LET device == marshalDeviceRegistrationInput(data.attrs)
        r == RegisterDevice(ctrl, device, ver, o1)
        rs == <<Request("RegisterDevice", device.Name, "", o1, r.err)>>
    IN IF r.err # "nil" THEN Handled("error", data, r.ctrl, rs)
       ELSE Handled("nil", SetId(data, device.Name), r.ctrl, rs)

\* A slip: the two address lines are set from each other's field.
SetFromDevice_AddressSwapped(attrs, device) ==
    [attrs EXCEPT !.name = device.Name, !.public_ip = device.PublicIP,
                  !.username = device.Username, !.host_os = device.HostOS,
                  !.ssh_port = device.SshPort, !.address_1 = device.Address2,
                  !.address_2 = device.Address1, !.city = device.City,
                  !.state = device.State, !.country = device.Country,
                  !.zip_code = device.ZipCode, !.description = device.Description,
                  !.software_version = device.SoftwareVersion,
                  !.is_caag = device.IsCaag]

\* The d.Set calls of Read.
SetFromDevice(attrs, device) ==
    [attrs EXCEPT !.name = device.Name, !.public_ip = device.PublicIP,
                  !.username = device.Username, !.host_os = device.HostOS,
                  !.ssh_port = device.SshPort, !.address_1 = device.Address1,
                  !.address_2 = device.Address2, !.city = device.City,
                  !.state = device.State, !.country = device.Country,
                  !.zip_code = device.ZipCode, !.description = device.Description,
                  !.software_version = device.SoftwareVersion,
                  !.is_caag = device.IsCaag]

\* A slip: every lookup error is taken for "not found".
resourceAviatrixDeviceRegistrationRead_AnyErrorIsGone(data, ctrl, o1) ==
    LET name == IF data.attrs.name = "" THEN data.id ELSE data.attrs.name
        r == GetDevice(ctrl, [Name |-> name], o1)
        rs == <<Request("GetDevice", name, "", o1, r.err)>>
    IN IF r.err # "nil" THEN Handled("nil", SetId(data, ""), ctrl, rs)
       ELSE Handled("nil",
                    [id |-> r.device.Name, attrs |-> SetFromDevice(data.attrs, r.device)],
                    ctrl, rs)

resourceAviatrixDeviceRegistrationRead(data, ctrl, o1) ==
    LET name == IF data.attrs.name = "" THEN data.id ELSE data.attrs.name
        r == GetDevice(ctrl, [Name |-> name], o1)
        rs == <<Request("GetDevice", name, "", o1, r.err)>>
    IN IF r.err = "ErrNotFound" THEN Handled("nil", SetId(data, ""), ctrl, rs)
       ELSE IF r.err # "nil" THEN Handled("error", data, ctrl, rs)
       ELSE Handled("nil",
                    [id |-> r.device.Name, attrs |-> SetFromDevice(data.attrs, r.device)],
                    ctrl, rs)

\* A slip: the upgrade is issued without looking at is_caag.
resourceAviatrixDeviceRegistrationUpdate_NoCaagCheck(data, ctrl, hasChange, o1, o2) ==
    LET device == marshalDeviceRegistrationInput(data.attrs)
        r1 == UpdateDevice(ctrl, device, o1)
        q1 == Request("UpdateDevice", device.Name, "", o1, r1.err)
        softwareVersion == data.attrs.software_version
        r2 == UpgradeGateway(r1.ctrl,
                  [GwName |-> device.Name, SoftwareVersion |-> softwareVersion], o2)
        q2 == Request("UpgradeGateway", device.Name, softwareVersion, o2, r2.err)
    IN IF r1.err # "nil" THEN Handled("error", data, r1.ctrl, <<q1>>)
       ELSE IF ~hasChange THEN Handled("nil", SetId(data, device.Name), r1.ctrl, <<q1>>)
       ELSE IF r2.err # "nil" THEN Handled("error", data, r2.ctrl, <<q1, q2>>)
       ELSE Handled("nil", SetId(data, device.Name), r2.ctrl, <<q1, q2>>)

resourceAviatrixDeviceRegistrationUpdate(data, ctrl, hasChange, o1, o2) ==
    LET device == marshalDeviceRegistrationInput(data.attrs)
        r1 == UpdateDevice(ctrl, device, o1)
        q1 == Request("UpdateDevice", device.Name, "", o1, r1.err)
        softwareVersion == data.attrs.software_version
        r2 == UpgradeGateway(r1.ctrl,
                  [GwName |-> device.Name, SoftwareVersion |-> softwareVersion], o2)
        q2 == Request("UpgradeGateway", device.Name, softwareVersion, o2, r2.err)
    IN IF r1.err # "nil" THEN Handled("error", data, r1.ctrl, <<q1>>)
       ELSE IF ~hasChange THEN Handled("nil", SetId(data, device.Name), r1.ctrl, <<q1>>)
       ELSE IF ~data.attrs.is_caag THEN Handled("error", data, r1.ctrl, <<q1>>)
       ELSE IF r2.err # "nil" THEN Handled("error", data, r2.ctrl, <<q1, q2>>)
       ELSE Handled("nil", SetId(data, device.Name), r2.ctrl, <<q1, q2>>)

resourceAviatrixDeviceRegistrationDelete(data, ctrl, o1) ==
    LET br == marshalDeviceRegistrationInput(data.attrs)
        r == DeregisterDevice(ctrl, br, o1)
        rs == <<Request("DeregisterDevice", br.Name, "", o1, r.err)>>
    IN IF r.err # "nil" THEN Handled("error", data, r.ctrl, rs)
       ELSE Handled("nil", SetId(data, br.Name), r.ctrl, rs)

(***************************************************************************)
(* The resource's life under the configuration engine: one handler per     *)
(* step.  A ResourceData whose ID is empty is no resource.                 *)
(***************************************************************************)
Persist(data) == IF data.id = "" THEN EmptyData ELSE data

\* What the last handler returned: the handler, its error, the ID before
\* and after, and (Update) whether software_version changed, the is_caag it
\* read and the version it planned; after: the handler ran right after a
\* successful Create.
Ret(op, h, id0, changed, caag, target, after) ==
    [op |-> op, err |-> h.err, id0 |-> id0, id |-> h.data.id, changed |-> changed,
     caag |-> caag, target |-> target, after |-> after]
NoHandler == [op |-> "none", err |-> "nil", id0 |-> "", id |-> "", changed |-> FALSE,
              caag |-> FALSE, target |-> "", after |-> FALSE]

Create ==
    /\ d = EmptyData
    /\ \E name \in DevNames, os \in HostOSes, prof \in Profiles,
          sv \in Versions \cup {""}, ver \in Versions, o1 \in Outcomes :
         \E h \in {resourceAviatrixDeviceRegistrationCreate(
                       [id |-> "", attrs |-> PlanCreate(name, os, prof, sv)],
                       ctrlDev, ver, o1)} :
            /\ d' = Persist(h.data)
            /\ ctrlDev' = h.ctrl
            /\ reqs' = h.reqs
            /\ devRet' = Ret("Create", h, "", FALSE, FALSE, "", FALSE)
    /\ UNCHANGED tagVars

Read ==
    /\ d.id # ""
    /\ \E o1 \in Outcomes :
         \E h \in {resourceAviatrixDeviceRegistrationRead(d, ctrlDev, o1)} :
            /\ d' = IF h.err = "nil" THEN Persist(h.data) ELSE d
            /\ ctrlDev' = h.ctrl
            /\ reqs' = h.reqs
            /\ devRet' = Ret("Read", h, d.id, FALSE, FALSE, "",
                             devRet.op = "Create" /\ devRet.err = "nil")
    /\ UNCHANGED tagVars

\* Import: the passthrough importer sets the ID and Read fills the rest.
Import ==
    /\ d = EmptyData
    /\ \E id \in DevNames, o1 \in Outcomes :
         \E h \in {resourceAviatrixDeviceRegistrationRead(
                       SetId(EmptyData, id), ctrlDev, o1)} :
            /\ d' = IF h.err = "nil" THEN Persist(h.data) ELSE EmptyData
            /\ ctrlDev' = h.ctrl
            /\ reqs' = h.reqs
            /\ devRet' = Ret("Import", h, id, FALSE, FALSE, "", FALSE)
    /\ UNCHANGED tagVars

Update ==
    /\ d.id # ""
    /\ \E prof \in Profiles, sv \in Versions \cup {""}, o1 \in Outcomes, o2 \in Outcomes :
         \E planned \in {PlanUpdate(d.attrs, prof, sv)} :
         \E hasChange \in {planned.software_version # d.attrs.software_version} :
         \E h \in {resourceAviatrixDeviceRegistrationUpdate(
                       [id |-> d.id, attrs |-> planned], ctrlDev, hasChange, o1, o2)} :
            /\ planned # d.attrs
            /\ d' = h.data
            /\ ctrlDev' = h.ctrl
            /\ reqs' = h.reqs
            /\ devRet' = Ret("Update", h, d.id, hasChange, planned.is_caag,
                             planned.software_version, FALSE)
    /\ UNCHANGED tagVars

Delete ==
    /\ d.id # ""
    /\ \E o1 \in Outcomes :
         \E h \in {resourceAviatrixDeviceRegistrationDelete(d, ctrlDev, o1)} :
            /\ d' = IF h.err = "nil" THEN EmptyData ELSE d
            /\ ctrlDev' = h.ctrl
            /\ reqs' = h.reqs
            /\ devRet' = Ret("Delete", h, d.id, FALSE, FALSE, "", FALSE)
    /\ UNCHANGED tagVars

\* The resource is dropped from the engine's state; the controller keeps
\* the device.
Forget ==
    /\ d.id # ""
    /\ d' = EmptyData
    /\ devRet' = NoHandler
    /\ reqs' = <<>>
    /\ UNCHANGED <<ctrlDev, tagVars>>

\* Another client of the controller deregisters a device.
OutOfBandDeregister ==
    /\ \E n \in DevNames :
         /\ Registered(ctrlDev, n)
         /\ ctrlDev' = [ctrlDev EXCEPT ![n] = NoDevice]
    /\ devRet' = NoHandler
    /\ reqs' = <<>>
    /\ UNCHANGED <<d, tagVars>>

InitTags ==
    /\ ctrlTags = [k \in ResourceKeys |-> NoTags]
    /\ tags = NewTags(Gateway(1), {}, NoTags)
    /\ tagRet = NoCall

InitDev ==
    /\ ctrlDev = [n \in DevNames |-> NoDevice]
    /\ d = EmptyData
    /\ devRet = NoHandler
    /\ reqs = <<>>

Init == InitTags /\ InitDev

NextTags == CallerNew \/ CallerSet \/ AddTags \/ GetTags \/ DeleteTags \/ UpdateTags

SpecTags == Init /\ [][NextTags]_vars

NextDev == Create \/ Read \/ Import \/ Update \/ Delete \/ Forget \/ OutOfBandDeregister

SpecDev == Init /\ [][NextDev]_vars

Next == NextTags \/ NextDev

Spec == Init /\ [][Next]_vars

(***************************************************************************)
(* Properties                                                              *)
(***************************************************************************)
TagsKey == WireKey(tags.CloudType, tags.ResourceType, tags.ResourceName)
Entries(list) == {list[i] : i \in DOMAIN list}
EntriesOf(m) == {TagStr(k, m[k]) : k \in DOMAIN m}
EntriesForKey(k) == {TagStr(k, v) : v \in Vals}
GetTagsOk(r) == r.op = "GetTags" /\ r.err = "nil"

\* C1: a successful AddTags carrying mapping M (the struct's JSON payload)
\* followed by a successful GetTags on the same resource returns a list whose
\* "key:value" entries are, as a set, the pairs of M, and leaves M in the
\* struct's tag mapping.
C1_AddThenGetReturnsM ==
    [][(tagRet.op = "AddTags" /\ tagRet.err = "nil" /\ GetTagsOk(tagRet'))
         => /\ Len(tagRet'.list) = Cardinality(DOMAIN tags.TagJson)
            /\ Entries(tagRet'.list) = EntriesOf(tags.TagJson)
            /\ tags'.Tags = tags.TagJson]_vars

\* C2: a successful GetTags that follows a successful DeleteTags of the keys
\* in the struct's tag list returns no list entry and no tag-mapping entry for
\* any of those keys.
C2_DeletedKeysGone ==
    [][(tagRet.op = "DeleteTags" /\ tagRet.err = "nil" /\ GetTagsOk(tagRet'))
         => \A k \in tags.TagList :
               /\ Entries(tagRet'.list) \cap EntriesForKey(k) = {}
               /\ k \notin DOMAIN tags'.Tags]_vars

\* C3: when the controller accepts the list request and its results hold no
\* "usr_tags" category, whatever else they hold, GetTags returns the nil list
\* and no error.
C3_NoUsrTagsNilList ==
    (tagRet.op = "GetTags" /\ tagRet.outcome = "ok" /\ "usr_tags" \notin tagRet.cats)
       => (tagRet.err = "nil" /\ tagRet.list = <<>>)

C3_Witness ==
    /\ tagRet.op = "GetTags" /\ tagRet.outcome = "ok"
    /\ tagRet.cats = {"sys_tags"}
    /\ tagRet.err = "nil" /\ tagRet.list = <<>>

\* C10: after every successful GetTags the struct's tag mapping equals the
\* resource's current user tags on the controller (empty when it has none).
C10_MappingIsCurrentTags ==
    GetTagsOk(tagRet) => tags.Tags = ctrlTags[TagsKey]

Lookup == reqs[1]
IsLookup == devRet.op \in {"Read", "Import"}

\* C4: a lookup the controller answers for a name it has not registered yields
\* ErrNotFound; on ErrNotFound Read clears the ID and returns no error; on any
\* other lookup error Read returns an error and leaves the ID as it was; a
\* successful lookup does not clear the ID.
C4_NotFoundIsGone ==
    IsLookup =>
       /\ Lookup.call = "GetDevice"
       /\ (Lookup.outcome = "ok" /\ ~Registered(ctrlDev, Lookup.name))
             => Lookup.err = "ErrNotFound"
       /\ Lookup.err = "ErrNotFound" => (devRet.err = "nil" /\ devRet.id = "")
       /\ Lookup.err \notin {"nil", "ErrNotFound"}
             => (devRet.err = "error" /\ devRet.id = devRet.id0)
       /\ Lookup.err = "nil" => (devRet.err = "nil" /\ devRet.id = Lookup.name)

C4_Witness ==
    /\ devRet.op = "Read" /\ devRet.id0 # ""
    /\ Lookup.outcome = "ok" /\ ~Registered(ctrlDev, Lookup.name)
    /\ Lookup.err = "ErrNotFound"
    /\ devRet.err = "nil" /\ devRet.id = "" /\ d = EmptyData

Upgrades == {i \in DOMAIN reqs : reqs[i].call = "UpgradeGateway"}

\* C5: an Update that changes software_version while is_caag is false returns
\* an error, issues no upgrade and changes nothing of the controller's record.
C5_RejectedEntirely ==
    [][(devRet'.op = "Update" /\ devRet'.changed /\ ~devRet'.caag)
         => /\ devRet'.err = "error"
            /\ \A i \in DOMAIN reqs' : reqs'[i].call # "UpgradeGateway"
            /\ ctrlDev' = ctrlDev]_vars

\* C6: a Delete whose request reaches the controller for a device that is not
\* registered there returns no error.
C6_DeleteAbsentSucceeds ==
    [][(devRet'.op = "Delete" /\ reqs'[1].outcome = "ok"
          /\ ~Registered(ctrlDev, reqs'[1].name))
         => devRet'.err = "nil"]_vars

\* The attributes a caller supplies, credentials aside.
CallerAttrs == {"name", "public_ip", "username", "host_os", "ssh_port", "address_1",
                "address_2", "city", "state", "country", "zip_code", "description"}

\* C7: a successful Create of d followed by a successful Read looks d's name
\* up and leaves every caller-supplied non-credential attribute as d gave it,
\* with the ID equal to d's name.
C7_CreateReadRoundTrip ==
    [][(devRet.op = "Create" /\ devRet.err = "nil"
          /\ devRet'.op = "Read" /\ devRet'.err = "nil" /\ reqs'[1].err = "nil")
         => /\ reqs'[1].name = d.attrs.name
            /\ \A a \in CallerAttrs : d'.attrs[a] = d.attrs[a]
            /\ d'.id = d.attrs.name]_vars

C7_Witness ==
    /\ devRet.op = "Read" /\ devRet.after /\ devRet.err = "nil"
    /\ Lookup.err = "nil"
    /\ d.id = "dev1" /\ d.attrs.name = "dev1"
    /\ d.attrs.ssh_port = 2022 /\ d.attrs.address_1 = "1 Main St"
    /\ d.attrs.address_2 = "Suite 2" /\ d.attrs.host_os = "aviatrix"

Handlers == {"Create", "Read", "Import", "Update", "Delete"}
TagCalls == {"AddTags", "GetTags", "DeleteTags", "UpdateTags"}
NoRepeat(rs) == \A i, j \in DOMAIN rs : rs[i].call = rs[j].call => i = j

\* C8: whenever a tag call or a resource handler returns an error, the
\* controller's state is what it was before the call, and no request was
\* issued twice.
C8_AllOrNothing ==
    [][/\ (tagRet'.op \in TagCalls /\ tagRet'.err # "nil") => ctrlTags' = ctrlTags
       /\ (devRet'.op \in Handlers /\ devRet'.err # "nil")
             => (ctrlDev' = ctrlDev /\ NoRepeat(reqs'))]_vars

\* C9: an Update issues at most one upgrade, as its second request after its
\* device update succeeded, exactly when software_version changed and is_caag
\* is true; the upgrade names the device and carries the planned version.
C9_UpgradeProtocol ==
    devRet.op = "Update" =>
       /\ reqs[1].call = "UpdateDevice"
       /\ Cardinality(Upgrades) <= 1
       /\ Upgrades \subseteq {2}
       /\ (Upgrades # {}) <=> (reqs[1].err = "nil" /\ devRet.changed /\ devRet.caag)
       /\ \A i \in Upgrades : /\ reqs[i].name = d.attrs.name
                              /\ reqs[i].name = reqs[1].name
                              /\ reqs[i].version = devRet.target
                              /\ reqs[i].version = d.attrs.software_version
       /\ ~devRet.changed => Upgrades = {}

C9_Witness ==
    /\ devRet.op = "Update" /\ devRet.err = "nil"
    /\ devRet.changed /\ devRet.caag
    /\ Len(reqs) = 2 /\ reqs[1].err = "nil"
    /\ reqs[2].call = "UpgradeGateway" /\ reqs[2].err = "nil"
    /\ ctrlDev[d.attrs.name].software_version = devRet.target

(***************************************************************************)
(* What does hold where C1, C2, C5, C8 and C10 fail.                       *)
(***************************************************************************)
\* The returned list after AddTags, and after DeleteTags, is as C1 and C2 say.
ListAfterAddOrDelete ==
    [][/\ (tagRet.op = "AddTags" /\ tagRet.err = "nil" /\ GetTagsOk(tagRet'))
            => Entries(tagRet'.list) = EntriesOf(tags.TagJson)
       /\ (tagRet.op = "DeleteTags" /\ tagRet.err = "nil" /\ GetTagsOk(tagRet'))
            => \A k \in tags.TagList : Entries(tagRet'.list) \cap EntriesForKey(k) = {}]_vars

\* Only a successful GetTags writes the struct's tag mapping, and when the
\* response holds "usr_tags" the mapping is the resource's current user tags.
MappingWrittenByGetTagsOnly ==
    [][/\ (tagRet'.op \in {"AddTags", "UpdateTags", "DeleteTags"}
             \/ (tagRet'.op = "GetTags" /\ tagRet'.err # "nil"))
            => tags'.Tags = tags.Tags
       /\ (GetTagsOk(tagRet') /\ "usr_tags" \in tagRet'.cats)
            => tags'.Tags = ctrlTags'[WireKey(tags'.CloudType, tags'.ResourceType,
                                              tags'.ResourceName)]
       /\ (GetTagsOk(tagRet') /\ "usr_tags" \notin tagRet'.cats)
            => tags'.Tags = tags.Tags]_vars

\* A tag call that returns an error leaves the controller's tags alone.
TagCallsAllOrNothing ==
    [][(tagRet'.op \in TagCalls /\ tagRet'.err # "nil") => ctrlTags' = ctrlTags]_vars

\* Create, Read, Import and Delete are all-or-nothing, and a rejected
\* software_version change returns an error and issues no upgrade.
OtherHandlersAllOrNothing ==
    [][/\ (devRet'.op \in (Handlers \ {"Update"}) /\ devRet'.err # "nil")
            => (ctrlDev' = ctrlDev /\ NoRepeat(reqs'))
       /\ (devRet'.op = "Update" /\ devRet'.changed /\ ~devRet'.caag)
            => /\ devRet'.err = "error"
               /\ \A i \in DOMAIN reqs' : reqs'[i].call # "UpgradeGateway"
       /\ devRet'.op = "Update" => NoRepeat(reqs')]_vars
====
